---- MODULE Spec2Model ----
(***************************************************************************)
(* SwiftPulse courier: the route builder (_routing.js), parcel creation    *)
(* (create-parcel.js) and the hourly reconciliation of parcel positions    *)
(* (update-location.js) over the parcels and tracking_events tables.       *)
(*                                                                         *)
(* Time is counted in whole hours.  The wall clock is not trusted: every   *)
(* read of it (new Date(), datetime('now')) yields any instant, so that    *)
(* the clock may stand still, advance or be set back between two reads.    *)
(* Coordinates are integers (hundredths of the geocoder's grid unit), so   *)
(* that the interpolation of interpolatedRoute is exact; the arithmetic of *)
(* the code is modelled over the integers and rationals, not over IEEE     *)
(* doubles.                                                                *)
(***************************************************************************)
EXTENDS Integers, Sequences, FiniteSets, TLC

(***************************************************************************)
(* Bounds of the model.                                                    *)
(***************************************************************************)
\* update-locations invocations started in one behaviour
MaxTicks == 2
\* longest native path of the routing provider
MaxNativeLen == 203
\* longest stored route the status derivation is applied to
MaxRouteLen == 101

(***************************************************************************)
(* Program constants.                                                      *)
(***************************************************************************)
HoursPerDay == 24
SampleMax == 100
InterpSteps == 100

(***************************************************************************)
(* Input sets.                                                             *)
(***************************************************************************)
\* wall-clock instants (hours) a handler may read
Instants == {0, 12, 24, 47, 48}
\* tracking codes generateTrackingCode may draw
Codes == {1, 2}
\* shapes and lengths of the provider's native paths
Shapes == {"diag", "north", "east"}
RouteLens == 0..MaxNativeLen

(***************************************************************************)
(* SQL NULL and nullable columns: NULL is the empty tuple, a value v is    *)
(* the 1-tuple <<v>>.                                                      *)
(***************************************************************************)
NULL == <<>>
Some(v) == <<v>>
Val(o) == o[1]

Max(a, b) == IF a >= b THEN a ELSE b
Min(a, b) == IF a <= b THEN a ELSE b

(***************************************************************************)
(* The routing provider's answers.  A native path is a GeoJSON coordinate  *)
(* list: a sequence of <<lng, lat>> pairs.                                 *)
(***************************************************************************)
NativePoint(shape, i) ==
  CASE shape = "diag"  -> <<i, i>>
    [] shape = "north" -> <<0, i>>
    [] shape = "east"  -> <<i, 0>>

NativePath(shape, len) == [i \in 1..len |-> NativePoint(shape, i)]

\* _routing.js sampleCoords(coords, max).  The loop of lines 136-137 visits
\* the indices 0, step, 2*step, ... below coords.length.
Strided(coords, step) ==
  [j \in 1..((Len(coords) - 1) \div step + 1) |->
     [lat |-> coords[(j - 1) * step + 1][2],
      lng |-> coords[(j - 1) * step + 1][1]]]

LastDropped(out, last) == out[Len(out)].lng # last[1]

sampleCoords(coords, max) ==
  IF Len(coords) <= max
  THEN [i \in 1..Len(coords) |-> [lat |-> coords[i][2], lng |-> coords[i][1]]]
  ELSE LET step == Len(coords) \div max
           out  == Strided(coords, step)
           last == coords[Len(coords)]
       IN  IF LastDropped(out, last)
           THEN out \o <<[lat |-> last[2], lng |-> last[1]]>>
           ELSE out

\* _routing.js interpolatedRoute: the points only
interpolatedRoute(oLat, oLng, dLat, dLng) ==
  [j \in 1..(InterpSteps + 1) |->
     [lat |-> oLat + ((dLat - oLat) * (j - 1)) \div InterpSteps,
      lng |-> oLng + ((dLng - oLng) * (j - 1)) \div InterpSteps]]

\* _routing.js getRoute: prov is the provider's answer, "error" (exception,
\* non-OK status, no routes) or [coords |-> native path]
ProviderFailed(prov) == prov = [kind |-> "error"]

getRoute(oLat, oLng, dLat, dLng, prov) ==
  IF ProviderFailed(prov)
  THEN interpolatedRoute(oLat, oLng, dLat, dLng)
  ELSE sampleCoords(prov.coords, SampleMax)

ProviderError == [kind |-> "error"]
ProviderOk(coords) == [kind |-> "ok", coords |-> coords]

(***************************************************************************)
(* update-location.js advanceParcel: the pure part.                        *)
(***************************************************************************)
routePoints(parcel) == Val(parcel.route_points)
totalPoints(parcel) == Len(routePoints(parcel))
totalHours(parcel) == parcel.days_to_deliver * HoursPerDay
hoursElapsed(parcel, t) == Max(0, t - parcel.created_at)

\* an increment-based advance: one waypoint per tick, whatever the time
C2_FixedStep(parcel, t) ==
  Min(totalPoints(parcel) - 1, parcel.route_progress + 1)

targetProgress(parcel, t) ==
  Min(totalPoints(parcel) - 1,
      (hoursElapsed(parcel, t) * (totalPoints(parcel) - 1)) \div totalHours(parcel))

\* the time-derived target taken as is, without the max with the stored index
C1_NoMax(parcel, t) == targetProgress(parcel, t)

newProgress(parcel, t) == Max(parcel.route_progress, targetProgress(parcel, t))

\* the final-5% test made strict
C5_StrictThreshold(status, progress, total) ==
  IF progress >= total - 1 THEN "delivered"
  ELSE IF 100 * progress > 95 * total THEN "out_for_delivery"
  ELSE IF status = "pending" THEN "in_transit"
  ELSE status

C25_ThresholdFirst(status, progress, total) ==
  IF 100 * progress >= 95 * total THEN "out_for_delivery"
  ELSE IF progress >= total - 1 THEN "delivered"
  ELSE IF status = "pending" THEN "in_transit"
  ELSE status

newStatus(status, progress, total) ==
  IF progress >= total - 1 THEN "delivered"
  ELSE IF 100 * progress >= 95 * total THEN "out_for_delivery"
  ELSE IF status = "pending" THEN "in_transit"
  ELSE status

\* routePoints[newProgress] is undefined: point.lat throws
PointMissing(parcel, t) ==
  newProgress(parcel, t) + 1 \notin 1..totalPoints(parcel)

(***************************************************************************)
(* State.                                                                  *)
(*   parcels          table parcels, rows in insertion order               *)
(*   tracking_events  table tracking_events, rows in insertion order       *)
(*   inv              the update-locations invocations: position in the    *)
(*                    handler, the rows it selected, its loop index, its   *)
(*                    counter and its response                             *)
(*   ticks            number of update-locations invocations started       *)
(*   maxTickAt        history: per tracking code, the latest clock value   *)
(*                    any UPDATE of advanceParcel was computed at (-1:     *)
(*                    none)                                                *)
(*   nUpdates         history: per tracking code, the number of UPDATE     *)
(*                    statements advanceParcel has executed                *)
(*   call             the pure-function call under study (route builder,   *)
(*                    status derivation), unused by the handlers           *)
(***************************************************************************)
VARIABLES parcels, tracking_events, inv, ticks,
          maxTickAt, nUpdates, call

vars == <<parcels, tracking_events, inv, ticks,
          maxTickAt, nUpdates, call>>

Invs == {1, 2}
\* invocations of the scheduled function that run one after the other
SeqInvs == {1}

NoResp == [statusCode |-> 0]
\* failed (history): the rows of this invocation whose processing threw
IdleInv == [pc |-> "idle", rows |-> <<>>, i |-> 0, updated |-> 0,
            cur |-> NULL, resp |-> NoResp, failed |-> 0]
NoCall == [fn |-> "none"]

OriginGeo == [lat |-> 0, lng |-> 0]
DestGeo == [lat |-> 100, lng |-> 200]
GeoOutcomes(pt) == {NULL, Some(pt)}
Providers(lens) ==
  {ProviderError} \cup {ProviderOk(NativePath("diag", n)) : n \in lens}
\* _routing.js reverseGeocode.  The outcomes of the lookup: a named place;
\* a feature without any name; a non-OK response; no feature; MAPBOX_TOKEN
\* not set; an exception of fetch or of the parsing.
GeoLookups == {"ok", "unnamed", "http_error", "empty", "no_token", "exception"}
LookupFailed(lookup) ==
  lookup \in {"http_error", "empty", "no_token", "exception"}

\* the placeholder of a lookup that resolves a place without any name
C18_NoPlaceholder(lookup) == IF lookup = "ok" THEN "Place" ELSE ""

reverseGeocode(lookup) ==
  IF LookupFailed(lookup) THEN "In transit"
  ELSE IF lookup = "ok" THEN "Place"
  ELSE "In transit"

(***************************************************************************)
(* The inputs a specification draws from: the tracking codes drawn, the    *)
(* clock values, daysToDeliver values and native path lengths of parcel    *)
(* creation, the statements of create-parcel that may throw, and the clock *)
(* values and lookup outcomes of the reconciliation.                        *)
(***************************************************************************)
\* one parcel, created at any of two instants
OneParcel ==
  [codes |-> {1}, createdAt |-> {0, 12}, days |-> {1, 2},
   native |-> {0, 1, 3}, faults |-> {"none", "event"},
   instants |-> Instants, lookups |-> GeoLookups]
\* two parcels in the same invocation
TwoParcels ==
  [codes |-> Codes, createdAt |-> {0}, days |-> {1, 2},
   native |-> {0}, faults |-> {"none"},
   instants |-> {0, 24, 48}, lookups |-> {"empty"}]

\* one parcel and two invocations of the scheduled function that overlap
Overlap ==
  [codes |-> {1}, createdAt |-> {0}, days |-> {2},
   native |-> {0}, faults |-> {"none"},
   instants |-> {12, 36, 48}, lookups |-> {"empty"}]

\* one parcel and an hourly schedule that never ends
Hourly ==
  [codes |-> {1}, createdAt |-> {0}, days |-> {1, 2},
   native |-> {0, 1, 3}, faults |-> {"none"},
   instants |-> {12, 24, 48}, lookups |-> {"empty"}]

\* the requests to create-parcel
Requests ==
  [codes |-> Codes, createdAt |-> {0}, days |-> {1},
   native |-> {3}, faults |-> {"none"},
   instants |-> {0}, lookups |-> {"empty"}]

\* one parcel, created at hour 0, with fix-parcel calls
Lifetime ==
  [codes |-> {1}, createdAt |-> {0}, days |-> {1, 2},
   native |-> {3}, faults |-> {"none"},
   instants |-> {0, 12, 24, 48}, lookups |-> {"empty"}]

Init ==
  /\ parcels = <<>>
  /\ tracking_events = <<>>
  /\ inv = [k \in Invs |-> IdleInv]
  /\ ticks = 0
  /\ maxTickAt = [c \in Codes |-> -1]
  /\ nUpdates = [c \in Codes |-> 0]
  /\ call = NoCall

(***************************************************************************)
(* create-parcel.js handler.                                               *)
(***************************************************************************)
StoredCodes == {parcels[j].tracking_code : j \in 1..Len(parcels)}
RowOf(tbl, code) == CHOOSE j \in 1..Len(tbl) : tbl[j].tracking_code = code

NewParcelRow(code, days, og, dg, prov, t) ==
  LET geo == og # NULL /\ dg # NULL
      o == Val(og)
      d == Val(dg)
  IN  [tracking_code |-> code,
       days_to_deliver |-> days,
       status |-> "pending",
       current_lat |-> IF geo THEN Some(o.lat) ELSE NULL,
       current_lng |-> IF geo THEN Some(o.lng) ELSE NULL,
       current_location_name |-> "Awaiting Pickup",
       origin_lat |-> IF geo THEN Some(o.lat) ELSE NULL,
       origin_lng |-> IF geo THEN Some(o.lng) ELSE NULL,
       destination_lat |-> IF geo THEN Some(d.lat) ELSE NULL,
       destination_lng |-> IF geo THEN Some(d.lng) ELSE NULL,
       route_points |-> IF geo
                        THEN Some(getRoute(o.lat, o.lng, d.lat, d.lng, prov))
                        ELSE NULL,
       route_progress |-> 0,
       created_at |-> t,
       last_updated |-> t]

CreatedEvent(code, og, dg) ==
  LET geo == og # NULL /\ dg # NULL
  IN  [tracking_code |-> code,
       event_type |-> "created",
       location_name |-> "deliveryFromAddress",
       lat |-> IF geo THEN Some(Val(og).lat) ELSE NULL,
       lng |-> IF geo THEN Some(Val(og).lng) ELSE NULL]

\* a valid POST; fault: the statement that throws, if any.  A throwing
\* INSERT INTO parcels (or a tracking code already stored, which violates
\* the UNIQUE constraint) stores nothing: a stuttering step.
CreateParcel(in) ==
  /\ \E t \in in.createdAt, code \in in.codes, days \in in.days,
        og \in GeoOutcomes(OriginGeo), dg \in GeoOutcomes(DestGeo),
        prov \in Providers(in.native), fault \in in.faults :
       /\ code \notin StoredCodes
       /\ parcels' = Append(parcels, NewParcelRow(code, days, og, dg, prov, t))
       /\ IF fault = "event"
          THEN UNCHANGED tracking_events
          ELSE tracking_events' =
                 Append(tracking_events, CreatedEvent(code, og, dg))
  /\ UNCHANGED <<inv, ticks, maxTickAt, nUpdates, call>>

(***************************************************************************)
(* update-location.js handler, one action per step between two awaits.     *)
(* The clock read, the reverse geocoding and the UPDATE of advanceParcel   *)
(* form one step (nothing is stored in between); the INSERT of the         *)
(* tracking event is the next one.  Each storage call may throw.           *)
(***************************************************************************)
\* the SELECT of lines 22-27
ActiveStatus == {"pending", "in_transit", "out_for_delivery"}
\* a selection on the status alone
C16_StatusOnly(row) == row.status \in ActiveStatus

\* a selection without the status filter
C4_AnyStatus(row) ==
  /\ row.route_points # NULL
  /\ row.origin_lat # NULL

IsCandidate(row) ==
  /\ row.status \in ActiveStatus
  /\ row.route_points # NULL
  /\ row.origin_lat # NULL
SelectActive(tbl) == SelectSeq(tbl, IsCandidate)

\* the two return statements with status 200 (lines 31 and 56), and line 59
OkResp(updated) == [statusCode |-> 200, body |-> [updated |-> updated]]
FatalResp == [statusCode |-> 500, body |-> [error |-> "message"]]

\* a failure that ends the loop instead of going on with the next row
C7_AbortLoop(i, n) == n + 1

\* the catch of lines 45-50: the loop goes on with the next row
AfterCatch(i, n) == i + 1

\* what advanceParcel computes for a row at clock value t (lines 64-95)
Computed(parcel, t, lookup) ==
  LET np == newProgress(parcel, t)
      ns == newStatus(parcel.status, np, totalPoints(parcel))
      point == routePoints(parcel)[np + 1]
  IN  [tracking_code |-> parcel.tracking_code, newProgress |-> np,
       newStatus |-> ns, lat |-> point.lat, lng |-> point.lng,
       locationName |-> reverseGeocode(lookup), at |-> t, lookup |-> lookup]

\* the UPDATE of lines 97-110
UpdateParcel(tbl, c, t) ==
  [j \in 1..Len(tbl) |->
     IF tbl[j].tracking_code = c.tracking_code
     THEN [tbl[j] EXCEPT !.current_lat = Some(c.lat),
                         !.current_lng = Some(c.lng),
                         !.current_location_name = c.locationName,
                         !.route_progress = c.newProgress,
                         !.status = c.newStatus,
                         !.last_updated = t]
     ELSE tbl[j]]

\* the INSERT of lines 113-129
TickEvent(c) ==
  [tracking_code |-> c.tracking_code,
   event_type |-> IF c.newStatus = "delivered" THEN "delivered"
                  ELSE "location_update",
   location_name |-> c.locationName,
   lat |-> Some(c.lat),
   lng |-> Some(c.lng)]

Ended(k) == inv[k].pc \in {"idle", "done", "killed"}
CurRow(k) == inv[k].rows[inv[k].i]

\* the invocation after initDb and the SELECT (lines 20-37)
Selected(dbOk) ==
  LET rows == SelectActive(parcels)
  IN  IF ~dbOk
      THEN [IdleInv EXCEPT !.pc = "done", !.resp = FatalResp]
      ELSE IF Len(rows) = 0
      THEN [IdleInv EXCEPT !.pc = "done", !.resp = OkResp(0)]
      ELSE [IdleInv EXCEPT !.pc = "loop", !.rows = rows, !.i = 1]

StartTick(k) ==
  /\ Ended(k)
  /\ ticks < MaxTicks
  /\ ticks' = ticks + 1
  /\ \E dbOk \in BOOLEAN : inv' = [inv EXCEPT ![k] = Selected(dbOk)]
  /\ UNCHANGED <<parcels, tracking_events, maxTickAt, nUpdates, call>>

\* advanceParcel throws before any write: routePoints[newProgress] is
\* undefined
AdvanceThrow(k, in) ==
  /\ inv[k].pc = "loop"
  /\ inv[k].i <= Len(inv[k].rows)
  /\ \E t \in in.instants : PointMissing(CurRow(k), t)
  /\ inv' = [inv EXCEPT ![k].failed = @ + 1,
                        ![k].i = AfterCatch(@, Len(inv[k].rows))]
  /\ UNCHANGED <<parcels, tracking_events, ticks, maxTickAt, nUpdates, call>>

\* advanceParcel up to its UPDATE, the clock reading t
AdvanceAt(k, t, lookup, dbOk) ==
  /\ inv[k].pc = "loop"
  /\ inv[k].i <= Len(inv[k].rows)
  /\ ~PointMissing(CurRow(k), t)
  /\ LET c == Computed(CurRow(k), t, lookup)
     IN  IF dbOk
         THEN /\ parcels' = UpdateParcel(parcels, c, t)
              /\ inv' = [inv EXCEPT ![k].cur = Some(c),
                                    ![k].pc = "insert"]
              /\ maxTickAt' = [maxTickAt EXCEPT
                                 ![c.tracking_code] = Max(@, t)]
              /\ nUpdates' = [nUpdates EXCEPT
                                ![c.tracking_code] = @ + 1]
         ELSE /\ inv' = [inv EXCEPT
                           ![k].failed = @ + 1,
                           ![k].i = AfterCatch(@, Len(inv[k].rows))]
              /\ UNCHANGED <<parcels, maxTickAt, nUpdates>>
  /\ UNCHANGED <<tracking_events, ticks, call>>

AdvanceUpdate(k, in) ==
  \E t \in in.instants, lookup \in in.lookups, dbOk \in BOOLEAN :
    AdvanceAt(k, t, lookup, dbOk)

AdvanceInsert(k) ==
  /\ inv[k].pc = "insert"
  /\ \E dbOk \in BOOLEAN :
       IF dbOk
       THEN /\ tracking_events' =
                 Append(tracking_events, TickEvent(Val(inv[k].cur)))
            /\ inv' = [inv EXCEPT ![k].pc = "loop", ![k].cur = NULL,
                                  ![k].updated = @ + 1, ![k].i = @ + 1]
       ELSE /\ inv' = [inv EXCEPT
                         ![k].pc = "loop", ![k].cur = NULL,
                         ![k].failed = @ + 1,
                         ![k].i = AfterCatch(@, Len(inv[k].rows))]
            /\ UNCHANGED tracking_events
  /\ UNCHANGED <<parcels, ticks, maxTickAt, nUpdates, call>>

FinishTick(k) ==
  /\ inv[k].pc = "loop"
  /\ inv[k].i > Len(inv[k].rows)
  /\ inv' = [inv EXCEPT ![k] =
               [IdleInv EXCEPT !.pc = "done", !.resp = OkResp(inv[k].updated)]]
  /\ UNCHANGED <<parcels, tracking_events, ticks, maxTickAt, nUpdates, call>>

\* the platform ends the invocation at its deadline: no response
Deadline(k) ==
  /\ inv[k].pc \in {"loop", "update", "insert"}
  /\ inv' = [inv EXCEPT ![k] = [IdleInv EXCEPT !.pc = "killed"]]
  /\ UNCHANGED <<parcels, tracking_events, ticks, maxTickAt, nUpdates, call>>

Tick(k, in) ==
  \/ StartTick(k)
  \/ AdvanceThrow(k, in)
  \/ AdvanceUpdate(k, in)
  \/ AdvanceInsert(k)
  \/ FinishTick(k)
  \/ Deadline(k)

(***************************************************************************)
(* One parcel and the scheduled function, its invocations one after the    *)
(* other.                                                                  *)
(***************************************************************************)
Next ==
  \/ CreateParcel(OneParcel)
  \/ \E k \in SeqInvs : Tick(k, OneParcel)

Spec == Init /\ [][Next]_vars

(***************************************************************************)
(* Two parcels selected by the same invocation.                            *)
(***************************************************************************)
NextBatch ==
  \/ CreateParcel(TwoParcels)
  \/ \E k \in SeqInvs : Tick(k, TwoParcels)

SpecBatch == Init /\ [][NextBatch]_vars

(***************************************************************************)
(* Invocations of the scheduled function that overlap.  advanceParcel      *)
(* awaits reverseGeocode between the clock read and the UPDATE, so another *)
(* invocation may run in between: the computation from the row selected   *)
(* (lines 64-95) and the UPDATE (lines 97-110) are two steps.  The clock   *)
(* never goes back here: a read yields no less than any earlier read that  *)
(* reached, or may still reach, the table.                                 *)
(***************************************************************************)
LastClock ==
  LET pending == {Val(inv[k].cur).at : k \in {n \in Invs : inv[n].cur # NULL}}
      stored == {maxTickAt[c] : c \in Codes}
  IN  CHOOSE m \in pending \cup stored : \A x \in pending \cup stored : x <= m

AdvanceCompute(k, in) ==
  /\ inv[k].pc = "loop"
  /\ inv[k].i <= Len(inv[k].rows)
  /\ \E t \in in.instants, lookup \in in.lookups :
       /\ t >= LastClock
       /\ ~PointMissing(CurRow(k), t)
       /\ inv' = [inv EXCEPT ![k].cur = Some(Computed(CurRow(k), t, lookup)),
                             ![k].pc = "update"]
  /\ UNCHANGED <<parcels, tracking_events, ticks, maxTickAt, nUpdates, call>>

\* last_updated = datetime('now') is the clock at the UPDATE
AdvanceWrite(k, in) ==
  /\ inv[k].pc = "update"
  /\ \E t \in in.instants, dbOk \in BOOLEAN :
       LET c == Val(inv[k].cur)
       IN  /\ t >= LastClock
           /\ IF dbOk
              THEN /\ parcels' = UpdateParcel(parcels, c, t)
                   /\ inv' = [inv EXCEPT ![k].pc = "insert"]
                   /\ maxTickAt' = [maxTickAt EXCEPT
                                      ![c.tracking_code] = Max(@, c.at)]
                   /\ nUpdates' = [nUpdates EXCEPT
                                     ![c.tracking_code] = @ + 1]
              ELSE /\ inv' = [inv EXCEPT
                                ![k].pc = "loop", ![k].cur = NULL,
                                ![k].failed = @ + 1,
                                ![k].i = AfterCatch(@, Len(inv[k].rows))]
                   /\ UNCHANGED <<parcels, maxTickAt, nUpdates>>
  /\ UNCHANGED <<tracking_events, ticks, call>>

TickOverlapping(k, in) ==
  \/ StartTick(k)
  \/ AdvanceThrow(k, in)
  \/ AdvanceCompute(k, in)
  \/ AdvanceWrite(k, in)
  \/ AdvanceInsert(k)
  \/ FinishTick(k)
  \/ Deadline(k)

NextOverlap ==
  \/ CreateParcel(Overlap)
  \/ \E k \in Invs : TickOverlapping(k, Overlap)

SpecOverlap == Init /\ [][NextOverlap]_vars

(***************************************************************************)
(* The scheduled function invoked for ever, one invocation after the       *)
(* other, under a clock that advances: an invocation reads a later hour    *)
(* than the one of the parcel's last UPDATE, up to the hour Horizon, which *)
(* stands for every later hour (every parcel drawn is due by then).        *)
(* Fairness: the schedule keeps invoking the function and an invocation    *)
(* runs on (weak fairness of the next step), and the processing of a       *)
(* parcel that can succeed does not fail for ever (strong fairness of the  *)
(* successful UPDATE at a due hour and of the successful INSERT).          *)
(***************************************************************************)
Horizon ==
  CHOOSE t \in Hourly.instants : \A x \in Hourly.instants : x <= t

StartAgain(k) ==
  /\ Ended(k)
  /\ \E dbOk \in BOOLEAN : inv' = [inv EXCEPT ![k] = Selected(dbOk)]
  /\ UNCHANGED <<parcels, tracking_events, ticks, maxTickAt, nUpdates, call>>

LaterHours(in, code) ==
  {t \in in.instants : t > maxTickAt[code] \/ t = Horizon}

AdvanceLater(k, in) ==
  \E t \in in.instants, lookup \in in.lookups, dbOk \in BOOLEAN :
    /\ inv[k].pc = "loop"
    /\ inv[k].i <= Len(inv[k].rows)
    /\ t \in LaterHours(in, CurRow(k).tracking_code)
    /\ AdvanceAt(k, t, lookup, dbOk)

\* the UPDATE succeeds at an hour by which the parcel is due
DueUpdate(k, in) ==
  \E lookup \in in.lookups : AdvanceAt(k, Horizon, lookup, TRUE)

InsertOk(k) ==
  /\ AdvanceInsert(k)
  /\ tracking_events' # tracking_events

TickForEver(k, in) ==
  \/ StartAgain(k)
  \/ AdvanceThrow(k, in)
  \/ AdvanceLater(k, in)
  \/ AdvanceInsert(k)
  \/ FinishTick(k)
  \/ Deadline(k)

NextHourly ==
  \/ CreateParcel(Hourly)
  \/ \E k \in SeqInvs : TickForEver(k, Hourly)

SpecHourly ==
  /\ Init
  /\ [][NextHourly]_vars
  /\ WF_vars(NextHourly)
  /\ \A k \in SeqInvs : SF_vars(DueUpdate(k, Hourly))
  /\ \A k \in SeqInvs : SF_vars(InsertOk(k))

(***************************************************************************)
(* fix-parcel.js handler.  A POST naming a stored tracking code whose two  *)
(* addresses geocode: the route is built again and the UPDATE of lines     *)
(* 49-68 stores it.  The other paths (parcel not found, geocoding failed,  *)
(* a storage call that throws) store nothing.                              *)
(***************************************************************************)
FixedRow(row, og, dg, prov) ==
  [row EXCEPT !.origin_lat = Some(og.lat),
              !.origin_lng = Some(og.lng),
              !.destination_lat = Some(dg.lat),
              !.destination_lng = Some(dg.lng),
              !.current_lat = Some(og.lat),
              !.current_lng = Some(og.lng),
              !.current_location_name = "Awaiting Pickup",
              !.route_points = Some(getRoute(og.lat, og.lng, dg.lat, dg.lng, prov)),
              !.route_progress = 0,
              !.status = "pending"]

FixParcel(in) ==
  /\ \E code \in StoredCodes, prov \in Providers(in.native) :
       parcels' = [j \in 1..Len(parcels) |->
                     IF parcels[j].tracking_code = code
                     THEN FixedRow(parcels[j], OriginGeo, DestGeo, prov)
                     ELSE parcels[j]]
  /\ UNCHANGED <<tracking_events, inv, ticks, maxTickAt, nUpdates, call>>

(***************************************************************************)
(* One parcel over its lifetime: creation, the scheduled function and      *)
(* fix-parcel, in any order.                                               *)
(***************************************************************************)
NextLife ==
  \/ CreateParcel(Lifetime)
  \/ \E k \in SeqInvs : Tick(k, Lifetime)
  \/ FixParcel(Lifetime)

SpecLife == Init /\ [][NextLife]_vars

(***************************************************************************)
(* create-parcel.js handler with its response.  A request is rejected      *)
(* before the try block (method, JSON, required fields, daysToDeliver);    *)
(* inside it, initDb, the geocoding (MAPBOX_TOKEN not set), the INSERT     *)
(* INTO parcels (a tracking code already stored included), the INSERT INTO *)
(* tracking_events and sendMail may each throw, which the catch of lines   *)
(* 197-200 answers with 500.  call holds the response of the last request. *)
(***************************************************************************)
Methods == {"POST", "GET", "OPTIONS"}
Bodies == {"valid", "not_json", "missing_field", "bad_days"}
CreateFaults == {"none", "init", "geocode", "parcel", "event", "mail"}

CreateResp(statusCode, code) ==
  [fn |-> "createParcel", statusCode |-> statusCode, code |-> code]

\* the response to a request that reaches no storage call
Rejected(method, body) ==
  IF method = "OPTIONS" THEN 204
  ELSE IF method # "POST" THEN 405
  ELSE IF body # "valid" THEN 400
  ELSE 0

CreateRequest(in) ==
  \E method \in Methods, body \in Bodies, fault \in CreateFaults,
     t \in in.createdAt, code \in in.codes, days \in in.days,
     og \in GeoOutcomes(OriginGeo), dg \in GeoOutcomes(DestGeo),
     prov \in Providers(in.native) :
    LET row == NewParcelRow(code, days, og, dg, prov, t)
        stored == fault \notin {"init", "geocode", "parcel"}
                    /\ code \notin StoredCodes
        logged == stored /\ fault # "event"
    IN  /\ IF Rejected(method, body) # 0
           THEN /\ call' = CreateResp(Rejected(method, body), 0)
                /\ UNCHANGED <<parcels, tracking_events>>
           ELSE /\ parcels' = IF stored THEN Append(parcels, row) ELSE parcels
                /\ tracking_events' =
                     IF logged
                     THEN Append(tracking_events, CreatedEvent(code, og, dg))
                     ELSE tracking_events
                /\ call' = CreateResp(IF logged /\ fault = "none"
                                      THEN 201 ELSE 500, code)
        /\ UNCHANGED <<inv, ticks, maxTickAt, nUpdates>>

NextCreate == CreateRequest(Requests)

SpecCreate == Init /\ [][NextCreate]_vars

(***************************************************************************)
(* The route builder alone: getRoute applied to one provider answer.       *)
(***************************************************************************)
RouteCalls ==
  {[fn |-> "getRoute", prov |-> prov, done |-> FALSE, points |-> <<>>] :
     prov \in {ProviderError}
                \cup {ProviderOk(NativePath(sh, n)) : sh \in Shapes, n \in RouteLens}}

InitRoute ==
  /\ parcels = <<>>
  /\ tracking_events = <<>>
  /\ inv = [k \in Invs |-> IdleInv]
  /\ ticks = 0
  /\ maxTickAt = [c \in Codes |-> -1]
  /\ nUpdates = [c \in Codes |-> 0]
  /\ call \in RouteCalls

BuildRoute ==
  /\ call.fn = "getRoute"
  /\ ~call.done
  /\ call' = [call EXCEPT
                !.done = TRUE,
                !.points = getRoute(OriginGeo.lat, OriginGeo.lng,
                                    DestGeo.lat, DestGeo.lng, call.prov)]
  /\ UNCHANGED <<parcels, tracking_events, inv, ticks, maxTickAt, nUpdates>>

NextRoute == BuildRoute

SpecRoute == InitRoute /\ [][NextRoute]_vars

(***************************************************************************)
(* The interpolation fallback alone: interpolatedRoute applied to one      *)
(* origin and one destination (which may coincide).                        *)
(***************************************************************************)
Lats == {-100, 0, 100}
Lngs == {-200, 0, 300}

InterpCalls ==
  {[fn |-> "interpolatedRoute", oLat |-> oLat, oLng |-> oLng,
    dLat |-> dLat, dLng |-> dLng, done |-> FALSE, points |-> <<>>] :
     oLat \in Lats, oLng \in Lngs, dLat \in Lats, dLng \in Lngs}

InitInterp ==
  /\ parcels = <<>>
  /\ tracking_events = <<>>
  /\ inv = [k \in Invs |-> IdleInv]
  /\ ticks = 0
  /\ maxTickAt = [c \in Codes |-> -1]
  /\ nUpdates = [c \in Codes |-> 0]
  /\ call \in InterpCalls

Interpolate ==
  /\ call.fn = "interpolatedRoute"
  /\ ~call.done
  /\ call' = [call EXCEPT
                !.done = TRUE,
                !.points = interpolatedRoute(call.oLat, call.oLng,
                                             call.dLat, call.dLng)]
  /\ UNCHANGED <<parcels, tracking_events, inv, ticks, maxTickAt, nUpdates>>

NextInterp == Interpolate

SpecInterp == InitInterp /\ [][NextInterp]_vars

(***************************************************************************)
(* The status derivation alone: newStatus applied to one stored status,    *)
(* one new index and one route length.                                     *)
(***************************************************************************)
StatusCalls ==
  {[fn |-> "newStatus", status |-> st, progress |-> np, total |-> n,
    done |-> FALSE, out |-> ""] :
     st \in ActiveStatus,
     np \in 0..(MaxRouteLen - 1),
     n \in 1..MaxRouteLen}

InitStatus ==
  /\ parcels = <<>>
  /\ tracking_events = <<>>
  /\ inv = [k \in Invs |-> IdleInv]
  /\ ticks = 0
  /\ maxTickAt = [c \in Codes |-> -1]
  /\ nUpdates = [c \in Codes |-> 0]
  /\ call \in {c \in StatusCalls : c.progress < c.total}

DeriveStatus ==
  /\ call.fn = "newStatus"
  /\ ~call.done
  /\ call' = [call EXCEPT
                !.done = TRUE,
                !.out = newStatus(call.status, call.progress, call.total)]
  /\ UNCHANGED <<parcels, tracking_events, inv, ticks, maxTickAt, nUpdates>>

NextStatus == DeriveStatus

SpecStatus == InitStatus /\ [][NextStatus]_vars

(***************************************************************************)
(* Tracking codes: generateTrackingCode of create-parcel.js and the input  *)
(* validation of the two lookup endpoints.  A string is a sequence of      *)
(* one-character strings.  Math.random is a draw of an index into chars;   *)
(* the draws are taken from RandomIndexes.                                 *)
(***************************************************************************)
chars ==
  <<"A", "B", "C", "D", "E", "F", "G", "H", "J", "K", "L", "M", "N", "P",
    "Q", "R", "S", "T", "U", "V", "W", "X", "Y", "Z",
    "1", "2", "3", "4", "5", "6", "7", "8", "9", "0">>

\* first letter, first digit, last character of chars
RandomIndexes == {1, 25, Len(chars)}

seg(i, j, k) == <<chars[i], chars[j], chars[k]>>

generateTrackingCode(s1, s2, s3) ==
  <<"C", "R", "X", "-">> \o s1 \o <<"-">> \o s2 \o <<"-">> \o s3

LowerCase ==
  <<"a", "b", "c", "d", "e", "f", "g", "h", "i", "j", "k", "l", "m",
    "n", "o", "p", "q", "r", "s", "t", "u", "v", "w", "x", "y", "z">>

UpperCase ==
  <<"A", "B", "C", "D", "E", "F", "G", "H", "I", "J", "K", "L", "M",
    "N", "O", "P", "Q", "R", "S", "T", "U", "V", "W", "X", "Y", "Z">>

toUpperCase(str) ==
  [i \in DOMAIN str |->
     IF \E n \in DOMAIN LowerCase : LowerCase[n] = str[i]
     THEN UpperCase[CHOOSE n \in DOMAIN LowerCase : LowerCase[n] = str[i]]
     ELSE str[i]]

\* String.prototype.trim for the space character
trim(str) ==
  LET inner == {i \in DOMAIN str : str[i] # " "}
  IN  IF inner = {} THEN <<>>
      ELSE SubSeq(str, CHOOSE i \in inner : \A j \in inner : i <= j,
                       CHOOSE i \in inner : \A j \in inner : i >= j)

startsWith(str, prefix) ==
  /\ Len(str) >= Len(prefix)
  /\ SubSeq(str, 1, Len(prefix)) = prefix

\* track-parcel: the last segment of event.path, upper-cased
TrackParcelValid(segments) ==
  LET code == IF segments = <<>> THEN <<>>
              ELSE toUpperCase(segments[Len(segments)])
  IN  code # <<>> /\ startsWith(code, <<"C", "R", "X", "-">>)

\* get-parcel: the query parameter code, trimmed and upper-cased
GetParcelValid(param) ==
  LET code == toUpperCase(trim(param))
  IN  code # <<>> /\ Len(code) = 12

\* how the client writes the code it looks up
Typed(code, how) ==
  IF how = "lower"
  THEN [i \in DOMAIN code |->
          IF \E n \in DOMAIN UpperCase : UpperCase[n] = code[i]
          THEN LowerCase[CHOOSE n \in DOMAIN UpperCase : UpperCase[n] = code[i]]
          ELSE code[i]]
  ELSE code

InitCode ==
  /\ parcels = <<>>
  /\ tracking_events = <<>>
  /\ inv = [k \in Invs |-> IdleInv]
  /\ ticks = 0
  /\ maxTickAt = [c \in Codes |-> -1]
  /\ nUpdates = [c \in Codes |-> 0]
  /\ call = [fn |-> "generateTrackingCode", code |-> <<>>,
             track |-> "", get |-> ""]

GenerateCode ==
  /\ call.code = <<>>
  /\ \E i1, j1, k1, i2, j2, k2, i3, j3, k3 \in RandomIndexes :
       call' = [call EXCEPT
                  !.code = generateTrackingCode(seg(i1, j1, k1),
                                                seg(i2, j2, k2),
                                                seg(i3, j3, k3))]
  /\ UNCHANGED <<parcels, tracking_events, inv, ticks, maxTickAt, nUpdates>>

TrackParcel ==
  /\ call.code # <<>>
  /\ call.track = ""
  /\ \E how \in {"exact", "lower"} :
       call' = [call EXCEPT
                  !.track =
                     IF TrackParcelValid(<<<<"a", "p", "i">>,
                                           <<"t", "r", "a", "c", "k">>,
                                           Typed(call.code, how)>>)
                     THEN "accepted" ELSE "invalid"]
  /\ UNCHANGED <<parcels, tracking_events, inv, ticks, maxTickAt, nUpdates>>

GetParcel ==
  /\ call.code # <<>>
  /\ call.get = ""
  /\ \E how \in {"exact", "lower"} :
       call' = [call EXCEPT
                  !.get = IF GetParcelValid(Typed(call.code, how))
                          THEN "accepted" ELSE "invalid"]
  /\ UNCHANGED <<parcels, tracking_events, inv, ticks, maxTickAt, nUpdates>>

NextCode == GenerateCode \/ TrackParcel \/ GetParcel

SpecCode == InitCode /\ [][NextCode]_vars

(***************************************************************************)
(* Properties.                                                             *)
(***************************************************************************)
Rank(status) ==
  CASE status = "pending" -> 0
    [] status = "in_transit" -> 1
    [] status = "out_for_delivery" -> 2
    [] status = "delivered" -> 3

EventsIn(tbl, code) == SelectSeq(tbl, LAMBDA e : e.tracking_code = code)
TickEventsIn(tbl, code) ==
  SelectSeq(tbl, LAMBDA e : e.tracking_code = code /\ e.event_type # "created")

\* invocation k executes the UPDATE of advanceParcel in this step
Updates(k) == inv[k].pc = "loop" /\ inv'[k].pc = "insert"
\* invocation k is between the UPDATE and the INSERT of the row of code
MidRow(code) ==
  \E k \in Invs : inv[k].pc = "insert" /\ Val(inv[k].cur).tracking_code = code

\* C1: across sequential reconciliation ticks, whatever clock value each
\* one reads (earlier than the previous tick's, earlier than created_at),
\* the stored route_progress of every parcel never decreases and its status
\* never moves backward in pending < in_transit < out_for_delivery <
\* delivered.
C1_Monotonic ==
  [][\A j \in 1..Len(parcels) :
       /\ parcels'[j].tracking_code = parcels[j].tracking_code
       /\ parcels'[j].route_progress >= parcels[j].route_progress
       /\ Rank(parcels'[j].status) >= Rank(parcels[j].status)]_vars

\* a parcel that advanced, then was reconciled again at a clock value
\* earlier than the previous tick's and earlier than its created_at
C1_Witness ==
  \E j \in 1..Len(parcels) :
    /\ nUpdates[parcels[j].tracking_code] >= 2
    /\ parcels[j].route_progress > 0
    /\ parcels[j].last_updated < maxTickAt[parcels[j].tracking_code]
    /\ parcels[j].last_updated < parcels[j].created_at

\* floor(min(1, max(0, elapsed) / (days * 24)) * (n - 1))
ClaimedIndex(elapsed, days, n) ==
  IF Max(0, elapsed) >= days * 24
  THEN n - 1
  ELSE (Max(0, elapsed) * (n - 1)) \div (days * 24)

\* C2: self-healing.  For a routed parcel, after an update computed at a
\* clock value no earlier than that of any earlier update of the parcel,
\* the stored route_progress is floor(min(1, max(0, now - created_at) /
\* (days_to_deliver * 24h)) * (N - 1)), whatever the number and the times of
\* the earlier ticks.
C2_SelfHealing ==
  \A j \in 1..Len(parcels) :
    LET row == parcels[j]
    IN  (/\ row.route_points # NULL
         /\ nUpdates[row.tracking_code] > 0
         /\ row.last_updated = maxTickAt[row.tracking_code])
        => row.route_progress =
             ClaimedIndex(row.last_updated - row.created_at,
                          row.days_to_deliver, totalPoints(row))

\* N = 101, daysToDeliver = 2, elapsed 24h: index 50, after an earlier tick
C2_Witness ==
  \E j \in 1..Len(parcels) :
    /\ parcels[j].route_points # NULL
    /\ totalPoints(parcels[j]) = 101
    /\ parcels[j].days_to_deliver = 2
    /\ parcels[j].last_updated - parcels[j].created_at = 24
    /\ parcels[j].last_updated = maxTickAt[parcels[j].tracking_code]
    /\ nUpdates[parcels[j].tracking_code] >= 2
    /\ parcels[j].route_progress = 50

\* C3: idempotence.  When the index and the status a tick computes for a
\* candidate both equal the stored ones, the tick writes nothing to the
\* parcel record (and so appends no event for it).
C3_Idempotent ==
  [][\A k \in Invs :
       (/\ Updates(k)
        /\ Val(inv'[k].cur).newProgress = CurRow(k).route_progress
        /\ Val(inv'[k].cur).newStatus = CurRow(k).status)
       => FALSE]_vars

\* the UPDATE and the INSERT executed twice for a parcel whose index and
\* status the second tick found unchanged: two location events of one
\* parcel at the same waypoint
C3_Witness ==
  \E c \in Codes :
    /\ nUpdates[c] = 2
    /\ LET ev == TickEventsIn(tracking_events, c)
       IN  /\ Len(ev) = 2
           /\ ev[1].event_type = "location_update"
           /\ ev[2] = ev[1]

\* C4: terminal convergence.  An update of a candidate whose elapsed time is
\* at least days_to_deliver * 24h stores route_progress = N - 1 and status
\* delivered; a tick that starts later does not select a delivered parcel,
\* and outside the tick that delivered it the parcel's record and events
\* never change again.
C4_TerminalConvergence ==
  [][/\ \A k \in Invs :
          (/\ Updates(k)
           /\ Val(inv'[k].cur).at - CurRow(k).created_at
                >= CurRow(k).days_to_deliver * 24)
          => LET row == parcels'[RowOf(parcels', CurRow(k).tracking_code)]
             IN  /\ row.route_progress = totalPoints(CurRow(k)) - 1
                 /\ row.status = "delivered"
     /\ \A k \in Invs :
          (Ended(k) /\ inv'[k].pc = "loop")
          => \A i \in 1..Len(inv'[k].rows) :
               parcels[RowOf(parcels, inv'[k].rows[i].tracking_code)].status
                 # "delivered"
     /\ \A j \in 1..Len(parcels) :
          (parcels[j].status = "delivered"
             /\ ~MidRow(parcels[j].tracking_code))
          => /\ parcels'[j] = parcels[j]
             /\ EventsIn(tracking_events', parcels[j].tracking_code)
                  = EventsIn(tracking_events, parcels[j].tracking_code)]_vars

\* a parcel delivered by one tick (its delivered event is stored), and a
\* later tick that found no candidate
C4_Witness ==
  \E j \in 1..Len(parcels) :
    /\ parcels[j].status = "delivered"
    /\ totalPoints(parcels[j]) >= 2
    /\ parcels[j].route_progress = totalPoints(parcels[j]) - 1
    /\ nUpdates[parcels[j].tracking_code] = 1
    /\ \E n \in 1..Len(tracking_events) :
         /\ tracking_events[n].tracking_code = parcels[j].tracking_code
         /\ tracking_events[n].event_type = "delivered"
    /\ ticks = 2
    /\ inv[1].pc = "done"
    /\ inv[1].resp = OkResp(0)

\* ceil(0.95 * n)
Ceil95(n) == (95 * n + 99) \div 100

\* next(currentStatus, newIndex, N) in its priority order
ClaimedNext(status, index, n) ==
  CASE index >= n - 1 -> "delivered"
    [] index < n - 1 /\ index >= Ceil95(n) -> "out_for_delivery"
    [] index < n - 1 /\ index < Ceil95(n) /\ status = "pending" -> "in_transit"
    [] OTHER -> status

\* C5: the status a tick derives equals next(currentStatus, newIndex, N):
\* delivered when newIndex >= N - 1; else out_for_delivery when newIndex >=
\* ceil(0.95 * N); else in_transit from pending; else unchanged.
C5_StatusDerivation ==
  (call.fn = "newStatus" /\ call.done)
  => call.out = ClaimedNext(call.status, call.progress, call.total)

\* N = 100: index 95 gives out_for_delivery
C5_Witness ==
  /\ call.fn = "newStatus"
  /\ call.done
  /\ call.total = 100
  /\ call.progress = 95
  /\ call.status = "in_transit"
  /\ call.out = "out_for_delivery"

\* C6: per-parcel atomicity.  Outside the processing of the parcel itself,
\* every update of a parcel's record by a tick has its tracking event: the
\* record is never updated with the event missing.
C6_Atomic ==
  \A j \in 1..Len(parcels) :
    ~MidRow(parcels[j].tracking_code)
    => nUpdates[parcels[j].tracking_code]
         = Len(TickEventsIn(tracking_events, parcels[j].tracking_code))

\* a completed tick whose candidate has its record updated (status, index,
\* position) and no tracking event
C6_Witness ==
  \E j \in 1..Len(parcels) :
    /\ nUpdates[parcels[j].tracking_code] = 1
    /\ parcels[j].status = "in_transit"
    /\ parcels[j].route_progress > 0
    /\ TickEventsIn(tracking_events, parcels[j].tracking_code) = <<>>
    /\ inv[1].pc = "done"
    /\ inv[1].resp = OkResp(0)

\* C7: isolation.  A row whose processing throws is not counted and the
\* loop goes on with the next row; the invocation ends with status 200 and
\* a count of every selected row but those that threw themselves.
C7_Isolation ==
  [][\A k \in Invs :
       /\ (inv[k].pc \in {"loop", "insert"} /\ inv'[k].failed > inv[k].failed)
          => /\ inv'[k].pc = "loop"
             /\ inv'[k].i = inv[k].i + 1
             /\ inv'[k].rows = inv[k].rows
             /\ inv'[k].updated = inv[k].updated
       /\ (inv[k].pc = "loop" /\ inv'[k].pc = "done")
          => inv'[k].resp = OkResp(Len(inv[k].rows) - inv[k].failed)]_vars

\* two candidates: the processing of the first threw before any write, the
\* second was updated and counted
C7_Witness ==
  /\ inv[1].pc = "loop"
  /\ Len(inv[1].rows) = 2
  /\ inv[1].i = 3
  /\ nUpdates[inv[1].rows[1].tracking_code] = 0
  /\ inv[1].failed = 1
  /\ inv[1].updated = 1
  /\ nUpdates[inv[1].rows[2].tracking_code] >= 1

\* C8: the result of every completed invocation reports updatedCount and
\* totalCandidates, with 0 <= updatedCount <= totalCandidates.
C8_ReportsBoth ==
  \A k \in Invs :
    (inv[k].pc = "done" /\ inv[k].resp.statusCode = 200)
    => /\ {"updated", "totalCandidates"} \subseteq DOMAIN inv[k].resp.body
       /\ inv[k].resp.body.updated >= 0
       /\ inv[k].resp.body.updated <= inv[k].resp.body.totalCandidates

\* a completed invocation that updated one candidate: the body is
\* {updated: 1}, without the number of candidates
C8_Witness ==
  /\ inv[1].pc = "done"
  /\ inv[1].resp.statusCode = 200
  /\ DOMAIN inv[1].resp.body = {"updated"}
  /\ inv[1].resp.body.updated = 1

\* C9: fixed cardinality.  For every provider answer getRoute returns the
\* same number of waypoints, the sampling target of 100.
C9_FixedCardinality ==
  (call.fn = "getRoute" /\ call.done) => Len(call.points) = SampleMax

\* the interpolation fallback returns 101 waypoints, a native path of 3
\* points would return 3
C9_Witness ==
  /\ call.fn = "getRoute"
  /\ call.done
  /\ ProviderFailed(call.prov)
  /\ Len(call.points) = InterpSteps + 1

\* C10: for every native path of the provider, the route's first waypoint
\* is the path's first point and its last waypoint is the path's final
\* point, latitude and longitude.
C10_EndsAtDestination ==
  (/\ call.fn = "getRoute"
   /\ call.done
   /\ ~ProviderFailed(call.prov)
   /\ Len(call.prov.coords) >= 1)
  => LET coords == call.prov.coords
         first == coords[1]
         last == coords[Len(coords)]
     IN  /\ Len(call.points) >= 1
         /\ call.points[1] = [lat |-> first[2], lng |-> first[1]]
         /\ call.points[Len(call.points)] = [lat |-> last[2], lng |-> last[1]]

\* a native path of 200 points due north: the stride of 2 stops at point
\* 199, whose longitude equals the final point's, so the final point is not
\* appended and the route ends one point before the destination
C10_Witness ==
  /\ call.fn = "getRoute"
  /\ call.done
  /\ call.prov = ProviderOk(NativePath("north", 200))
  /\ Len(call.points) = 100
  /\ call.points[100] = [lat |-> 199, lng |-> 0]

\* C11: getRoute always returns a route of at least 2 waypoints: a provider
\* failure and a degenerate native path (zero or one point) both give the
\* interpolated fallback.
C11_NeverDegenerate ==
  (call.fn = "getRoute" /\ call.done)
  => /\ Len(call.points) >= 2
     /\ (ProviderFailed(call.prov) \/ Len(call.prov.coords) < 2)
        => call.points = interpolatedRoute(OriginGeo.lat, OriginGeo.lng,
                                           DestGeo.lat, DestGeo.lng)

\* the provider answers with a path of exactly one point: the route
\* returned is that single point
C11_Witness ==
  /\ call.fn = "getRoute"
  /\ call.done
  /\ call.prov = ProviderOk(NativePath("diag", 1))
  /\ call.points = <<[lat |-> 1, lng |-> 1]>>

\* C12: the fallback route has N points (the route cardinality, 100), point
\* i being origin + (destination - origin) * i / (N - 1) for i in 0..N-1,
\* latitude and longitude independently: the first point is the origin, the
\* last the destination, and all coincide when origin = destination.
C12_EvenlySpaced ==
  (call.fn = "interpolatedRoute" /\ call.done)
  => LET n == SampleMax
     IN  /\ Len(call.points) = n
         /\ \A i \in 0..(n - 1) :
              /\ (call.points[i + 1].lat - call.oLat) * (n - 1)
                   = (call.dLat - call.oLat) * i
              /\ (call.points[i + 1].lng - call.oLng) * (n - 1)
                   = (call.dLng - call.oLng) * i

\* distinct origin and destination: 101 points, spaced by 1/100 of the way;
\* the point of index 99 is not the destination, the one of index 100 is
C12_Witness ==
  /\ call.fn = "interpolatedRoute"
  /\ call.done
  /\ call.oLat # call.dLat
  /\ Len(call.points) = InterpSteps + 1
  /\ call.points[1] = [lat |-> call.oLat, lng |-> call.oLng]
  /\ call.points[SampleMax] # [lat |-> call.dLat, lng |-> call.dLng]
  /\ call.points[InterpSteps + 1] = [lat |-> call.dLat, lng |-> call.dLng]

\* the fields of a parcel's record that hold its progress
Progress(row) ==
  <<row.status, row.route_progress, row.current_lat, row.current_lng>>

\* C13: delivered is terminal across the whole system.  Once a parcel's
\* stored status is delivered no operation changes its status, its
\* route_progress or its current position; and after creation only the
\* UPDATE of the reconciliation writes those fields.
C13_DeliveredTerminal ==
  [][\A j \in 1..Len(parcels) :
       /\ parcels[j].status = "delivered"
          => Progress(parcels'[j]) = Progress(parcels[j])
       /\ Progress(parcels'[j]) # Progress(parcels[j])
          => \E k \in Invs :
               /\ Updates(k)
               /\ CurRow(k).tracking_code = parcels[j].tracking_code]_vars

\* a parcel whose delivered event is in the log, back to pending at index 0
C13_Witness ==
  \E j \in 1..Len(parcels) :
    /\ parcels[j].status = "pending"
    /\ parcels[j].route_progress = 0
    /\ \E n \in 1..Len(tracking_events) :
         /\ tracking_events[n].tracking_code = parcels[j].tracking_code
         /\ tracking_events[n].event_type = "delivered"

\* C14: over a parcel's lifetime, under any interleaving of create-parcel,
\* reconciliation ticks and fix-parcel calls, the stored route_progress
\* never decreases.
C14_LifetimeMonotonic ==
  [][\A j \in 1..Len(parcels) :
       parcels'[j].route_progress >= parcels[j].route_progress]_vars

\* a parcel in transit that a tick had moved off its origin (the event is
\* in the log), stored again at index 0
C14_Witness ==
  \E j \in 1..Len(parcels) :
    /\ parcels[j].route_progress = 0
    /\ parcels[j].last_updated > parcels[j].created_at
    /\ \E n \in 1..Len(tracking_events) :
         /\ tracking_events[n].tracking_code = parcels[j].tracking_code
         /\ tracking_events[n].event_type = "location_update"
         /\ tracking_events[n].lat # parcels[j].origin_lat

\* C15: route immutability.  Once a parcel's route is stored non-null no
\* operation changes the stored waypoint sequence; created_at and
\* days_to_deliver never change after creation.
C15_RouteImmutable ==
  [][\A j \in 1..Len(parcels) :
       /\ parcels[j].route_points # NULL
          => parcels'[j].route_points = parcels[j].route_points
       /\ parcels'[j].created_at = parcels[j].created_at
       /\ parcels'[j].days_to_deliver = parcels[j].days_to_deliver]_vars

\* a stored route of 3 waypoints, and in the log a tick event at a position
\* that is no waypoint of it: the position came from the route stored
\* before
C15_Witness ==
  \E j \in 1..Len(parcels) :
    /\ parcels[j].route_points # NULL
    /\ totalPoints(parcels[j]) = 3
    /\ \E n \in 1..Len(tracking_events) :
         /\ tracking_events[n].tracking_code = parcels[j].tracking_code
         /\ tracking_events[n].event_type # "created"
         /\ \A i \in 1..3 :
              routePoints(parcels[j])[i]
                # [lat |-> Val(tracking_events[n].lat),
                   lng |-> Val(tracking_events[n].lng)]

\* C16: a reconciliation tick selects no parcel without a stored route and
\* no delivered parcel, writes nothing to their records and appends no
\* event for them; a parcel without a route stays pending at index 0.
C16_SkipsUnroutedAndDelivered ==
  [][\A j \in 1..Len(parcels) :
       LET row == parcels[j]
           code == row.tracking_code
       IN  /\ (\/ row.route_points = NULL
               \/ row.status = "delivered" /\ ~MidRow(code))
              => /\ parcels'[j] = row
                 /\ EventsIn(tracking_events', code)
                      = EventsIn(tracking_events, code)
                 /\ \A k \in Invs :
                      (Ended(k) /\ inv'[k].pc = "loop")
                      => \A i \in 1..Len(inv'[k].rows) :
                           inv'[k].rows[i].tracking_code # code
           /\ row.route_points = NULL
              => row.status = "pending" /\ row.route_progress = 0]_vars

\* two ticks over a parcel without a route and a routed one: the second was
\* reconciled, the first is as it was created
C16_Witness ==
  /\ Len(parcels) = 2
  /\ parcels[1].route_points = NULL
  /\ parcels[1].status = "pending"
  /\ parcels[1].route_progress = 0
  /\ parcels[1].last_updated = parcels[1].created_at
  /\ nUpdates[parcels[1].tracking_code] = 0
  /\ parcels[2].route_points # NULL
  /\ nUpdates[parcels[2].tracking_code] >= 1
  /\ ticks = 2
  /\ inv[1].pc = "done"

\* the step of invocation k appends to the event log
Inserts(k) ==
  /\ inv[k].pc = "insert"
  /\ tracking_events' # tracking_events

\* every event a tick appends is the single event of the write before it:
\* delivered exactly when the status written is delivered, location_update
\* otherwise, at the waypoint of the index written
EventOfWrite(k) ==
  LET c == Val(inv[k].cur)
      row == parcels[RowOf(parcels, c.tracking_code)]
      e == tracking_events'[Len(tracking_events')]
  IN  /\ Len(tracking_events') = Len(tracking_events) + 1
      /\ SubSeq(tracking_events', 1, Len(tracking_events)) = tracking_events
      /\ e.tracking_code = c.tracking_code
      /\ e.event_type = "delivered" <=> row.status = "delivered"
      /\ e.event_type # "delivered" => e.event_type = "location_update"
      /\ e.lat = Some(routePoints(row)[row.route_progress + 1].lat)
      /\ e.lng = Some(routePoints(row)[row.route_progress + 1].lng)

\* C17: each reconciliation step that writes a parcel's record appends
\* exactly one tracking event for that parcel, of type delivered if and
\* only if the status written is delivered and location_update otherwise,
\* at the coordinates of route[newIndex]; a tick appends no created event.
C17_OneEventPerWrite ==
  [][\A k \in Invs :
       /\ Inserts(k) => EventOfWrite(k)
       /\ (inv[k].pc = "insert" /\ inv'[k].pc # "insert") => Inserts(k)]_vars

\* a completed tick that stored status delivered for a parcel whose log
\* holds no delivered event
C17_Witness ==
  \E j \in 1..Len(parcels) :
    /\ parcels[j].status = "delivered"
    /\ totalPoints(parcels[j]) >= 2
    /\ nUpdates[parcels[j].tracking_code] = 1
    /\ \A n \in 1..Len(tracking_events) :
         tracking_events[n].event_type # "delivered"
    /\ inv[1].pc = "done"

\* C18: a reverse-geocoding failure (non-OK response, no feature, missing
\* token, exception) does not fail the parcel update: the UPDATE stores the
\* new position, index and status with the label "In transit", and the
\* event appended carries the same label.
C18_LookupFailureTolerated ==
  [][\A k \in Invs :
       /\ (Updates(k) /\ LookupFailed(Val(inv'[k].cur).lookup))
          => LET old == CurRow(k)
                 at == Val(inv'[k].cur).at
                 np == newProgress(old, at)
                 row == parcels'[RowOf(parcels', old.tracking_code)]
             IN  /\ row.current_location_name = "In transit"
                 /\ row.route_progress = np
                 /\ row.status = newStatus(old.status, np, totalPoints(old))
                 /\ row.current_lat = Some(routePoints(old)[np + 1].lat)
                 /\ row.current_lng = Some(routePoints(old)[np + 1].lng)
       /\ (Inserts(k) /\ LookupFailed(Val(inv[k].cur).lookup))
          => tracking_events'[Len(tracking_events')].location_name
               = "In transit"]_vars

\* a parcel moved to index 25 and in transit by a tick whose lookup found
\* MAPBOX_TOKEN missing, its event appended
C18_Witness ==
  /\ inv[1].pc = "loop"
  /\ inv[1].updated = 1
  /\ \E j \in 1..Len(parcels) :
       /\ parcels[j].status = "in_transit"
       /\ parcels[j].route_progress = 25
       /\ parcels[j].current_location_name = "In transit"
       /\ nUpdates[parcels[j].tracking_code] = 1
       /\ Len(TickEventsIn(tracking_events, parcels[j].tracking_code)) = 1

DeliveredEventsOf(tbl, code) ==
  SelectSeq(tbl, LAMBDA e : e.tracking_code = code /\ e.event_type = "delivered")

\* C19: when two reconciliation invocations overlap, in any interleaving of
\* their reads, lookups and writes, the stored route_progress of a parcel
\* never decreases, its status never moves backward, and at most one
\* delivered event is appended for it.
C19_OverlapSafe ==
  [][\A j \in 1..Len(parcels) :
       /\ parcels'[j].route_progress >= parcels[j].route_progress
       /\ Rank(parcels'[j].status) >= Rank(parcels[j].status)
       /\ Len(DeliveredEventsOf(tracking_events', parcels[j].tracking_code))
            <= 1]_vars

\* both invocations selected the pending parcel; one read the clock at hour
\* 12 and waited for its lookup while the other, at hour 48, delivered the
\* parcel; then the first stored index 25 and in_transit over it
C19_Witness ==
  \E j \in 1..Len(parcels) :
    /\ parcels[j].status = "in_transit"
    /\ parcels[j].route_progress = 25
    /\ nUpdates[parcels[j].tracking_code] = 2
    /\ maxTickAt[parcels[j].tracking_code] = 48
    /\ Len(DeliveredEventsOf(tracking_events, parcels[j].tracking_code)) = 1

RoutedParcel(code) ==
  \E j \in 1..Len(parcels) :
    parcels[j].tracking_code = code /\ parcels[j].route_points # NULL

DeliveredParcel(code) ==
  \E j \in 1..Len(parcels) :
    parcels[j].tracking_code = code /\ parcels[j].status = "delivered"

\* C20: liveness.  Every parcel stored with a route eventually reaches
\* status delivered, for every route getRoute can store, when the clock
\* advances, the function keeps being invoked and the processing of a
\* parcel does not fail for ever.
C20_EventuallyDelivered ==
  \A code \in Codes : RoutedParcel(code) ~> DeliveredParcel(code)

\* a parcel stored with the empty route of an empty native path, still
\* pending and never written after an invocation at hour 48 or later that
\* failed on it
C20_Witness ==
  \E j \in 1..Len(parcels) :
    /\ parcels[j].route_points # NULL
    /\ totalPoints(parcels[j]) = 0
    /\ parcels[j].status = "pending"
    /\ nUpdates[parcels[j].tracking_code] = 0
    /\ inv[1].pc = "loop"
    /\ inv[1].failed = 1
    /\ inv[1].i = 2

\* C21: in every reachable state the stored route_progress of a routed
\* parcel is an index of its stored route, in 0..N-1, and after a tick's
\* UPDATE of the parcel the stored current position is the waypoint of the
\* stored route at the stored index.
C21_IndexInRange ==
  [][/\ \A j \in 1..Len(parcels') :
          parcels'[j].route_points # NULL
          => parcels'[j].route_progress \in 0..(totalPoints(parcels'[j]) - 1)
     /\ \A k \in Invs :
          Updates(k)
          => LET row == parcels'[RowOf(parcels', CurRow(k).tracking_code)]
                 pt == routePoints(row)[row.route_progress + 1]
             IN  /\ row.current_lat = Some(pt.lat)
                 /\ row.current_lng = Some(pt.lng)]_vars

\* a stored route of 3 waypoints with the stored index 25: fix-parcel
\* replaced the route after a tick had selected the parcel, and the tick's
\* UPDATE stored the index it had computed on the route of 101 waypoints
C21_Witness ==
  \E j \in 1..Len(parcels) :
    /\ parcels[j].route_points # NULL
    /\ totalPoints(parcels[j]) = 3
    /\ parcels[j].route_progress = 25
    /\ parcels[j].current_lat = Some(25)

\* C22: no premature delivery.  Whenever the UPDATE of a tick stores status
\* delivered, the clock of that tick is at least days_to_deliver * 24 hours
\* after created_at, for every route getRoute can have stored.
C22_NoPrematureDelivery ==
  [][\A k \in Invs :
       (Updates(k) /\ Val(inv'[k].cur).newStatus = "delivered")
       => Val(inv'[k].cur).at - CurRow(k).created_at
            >= CurRow(k).days_to_deliver * HoursPerDay]_vars

\* a parcel whose route is the single point of a one-point native path,
\* stored as delivered by a tick 12 hours after its creation, of the 48 it
\* was given
C22_Witness ==
  \E j \in 1..Len(parcels) :
    /\ parcels[j].route_points # NULL
    /\ totalPoints(parcels[j]) = 1
    /\ parcels[j].status = "delivered"
    /\ parcels[j].days_to_deliver = 2
    /\ parcels[j].created_at = 0
    /\ parcels[j].last_updated = 12
    /\ nUpdates[parcels[j].tracking_code] = 1

\* C23: in every reachable state, under ticks, failing writes and
\* fix-parcel calls, a parcel has status delivered if and only if its event
\* log holds exactly one delivered event (the moment between the UPDATE and
\* the INSERT of the parcel's own processing left aside).
C23_DeliveredIffOneEvent ==
  \A j \in 1..Len(parcels) :
    ~MidRow(parcels[j].tracking_code)
    => (parcels[j].status = "delivered"
          <=> Len(DeliveredEventsOf(tracking_events,
                                    parcels[j].tracking_code)) = 1)

\* a parcel delivered, reset by fix-parcel and delivered again: status
\* delivered with two delivered events in its log
C23_Witness ==
  \E j \in 1..Len(parcels) :
    /\ parcels[j].status = "delivered"
    /\ ~MidRow(parcels[j].tracking_code)
    /\ Len(DeliveredEventsOf(tracking_events, parcels[j].tracking_code)) = 2

CreatedEventsOf(tbl, code) ==
  SelectSeq(tbl, LAMBDA e : e.tracking_code = code /\ e.event_type = "created")

\* C24: create-parcel is all-or-nothing.  It answers 201 only after storing
\* one parcel record (pending, index 0) and exactly one created event; when
\* it answers 400, 405 or 500 it has stored no record and no event; so every
\* stored parcel has exactly one created event, the first of its events.
C24_AllOrNothing ==
  [][/\ call'.statusCode = 201
        => /\ Len(parcels') = Len(parcels) + 1
           /\ parcels'[Len(parcels')].tracking_code = call'.code
           /\ parcels'[Len(parcels')].status = "pending"
           /\ parcels'[Len(parcels')].route_progress = 0
           /\ tracking_events'
                = Append(tracking_events,
                         tracking_events'[Len(tracking_events')])
           /\ Len(CreatedEventsOf(tracking_events', call'.code)) = 1
     /\ call'.statusCode \in {400, 405, 500}
        => /\ parcels' = parcels
           /\ tracking_events' = tracking_events
     /\ \A j \in 1..Len(parcels') :
          LET log == EventsIn(tracking_events', parcels'[j].tracking_code)
          IN  /\ Len(log) >= 1
              /\ log[1].event_type = "created"
              /\ Len(CreatedEventsOf(log, parcels'[j].tracking_code)) = 1]_vars

\* the answer is 500 and the parcel of the request is stored, without any
\* event: the INSERT INTO tracking_events threw
C24_Witness ==
  /\ call.fn = "createParcel"
  /\ call.statusCode = 500
  /\ call.code \in StoredCodes
  /\ EventsIn(tracking_events, call.code) = <<>>

\* C25: on a route of N waypoints a parcel that is pending or in transit
\* becomes out_for_delivery only at an index i with ceil(0.95 * N) <= i <=
\* N - 2; such an index exists exactly when N >= 40; and on a route with
\* 2 <= N < 40 the derived status is in_transit or delivered, never
\* out_for_delivery.
C25_OutForDeliveryReach ==
  (call.fn = "newStatus" /\ call.done
     /\ call.status \in {"pending", "in_transit"})
  => /\ call.out = "out_for_delivery"
        => /\ call.total >= 40
           /\ Ceil95(call.total) <= call.progress
           /\ call.progress <= call.total - 2
     /\ (Ceil95(call.total) <= call.total - 2) <=> (call.total >= 40)
     /\ call.total \in 2..39 => call.out \in {"in_transit", "delivered"}

\* N = 40: index 38 is the one index that gives out_for_delivery
C25_Witness ==
  /\ call.fn = "newStatus"
  /\ call.done
  /\ call.total = 40
  /\ call.progress = 38
  /\ call.status = "in_transit"
  /\ call.out = "out_for_delivery"

\* C26: every tracking code generateTrackingCode can return passes the
\* input validation of track-parcel and of get-parcel.
C26_CodesPassValidation ==
  (call.fn = "generateTrackingCode" /\ call.code # <<>>)
  => /\ call.track # "invalid"
     /\ call.get # "invalid"

\* a generated code of 15 characters that track-parcel accepts and
\* get-parcel rejects
C26_Witness ==
  /\ call.fn = "generateTrackingCode"
  /\ Len(call.code) = 15
  /\ call.track = "accepted"
  /\ call.get = "invalid"

====
